---- MODULE Spec2Model ----
(***************************************************************************)
(* Model of src/python.py: a Streamlit script that reads a two-period      *)
(* financial statement, derives growth and composition percentages, a      *)
(* current ratio, a key-metrics excerpt, and offers a chat with an LLM.    *)
(*                                                                         *)
(* Every user interaction re-runs the script top to bottom; one action of  *)
(* this module is one such run.  st.session_state survives between runs.   *)
(*                                                                         *)
(* process_financial_data is a function of its argument, so the cache of   *)
(* @st.cache_data (line 15) returns what a call would compute and is not   *)
(* part of the state.  The table is kept unrounded: the display formats of *)
(* lines 178-184 and the f-strings of lines 235-237 are not applied.  The  *)
(* return of line 279 stands outside any function; it is modelled as its   *)
(* comment describes it, the end of the run.                               *)
(*                                                                         *)
(* Labels are sequences of words (the single blank between two words is    *)
(* implicit, the word " " is extra leading or trailing white space).       *)
(* Numbers are exact: a quotient is a normalised fraction n/d, with        *)
(* tiny = TRUE when the divisor was the constant 1e-9 and d = 0 for the    *)
(* IEEE results of a division by zero (n = 1: inf, -1: -inf, 0: nan).      *)
(***************************************************************************)
EXTENDS Integers, Sequences, FiniteSets, TLC

VARIABLES uploaded_file, messages, df_processed_for_chat,
          view, table, thanh_toan, data_for_ai, ai_result, request, outcome

vars == <<uploaded_file, messages, df_processed_for_chat,
          view, table, thanh_toan, data_for_ai, ai_result, request, outcome>>

----------------------------------------------------------------------------
(* Labels and the substring search of Series.str.contains(case=False).     *)

TONG_CONG_TAI_SAN == <<"TONG", "CONG", "TAI", "SAN">>
TAI_SAN_NGAN_HAN == <<"TAI", "SAN", "NGAN", "HAN">>
NO_NGAN_HAN == <<"NO", "NGAN", "HAN">>

Upper(w) ==
    CASE w = "tong" -> "TONG"
      [] w = "cong" -> "CONG"
      [] w = "tai" -> "TAI"
      [] w = "san" -> "SAN"
      [] w = "ngan" -> "NGAN"
      [] w = "han" -> "HAN"
      [] w = "no" -> "NO"
      [] OTHER -> w

UpperSeq(label) == [i \in 1..Len(label) |-> Upper(label[i])]

RECURSIVE LStrip(_)
LStrip(label) ==
    IF label # <<>> /\ Head(label) = " " THEN LStrip(Tail(label)) ELSE label

RECURSIVE RStrip(_)
RStrip(label) ==
    IF label # <<>> /\ label[Len(label)] = " "
    THEN RStrip(SubSeq(label, 1, Len(label) - 1))
    ELSE label

Strip(label) == RStrip(LStrip(label))

\* Series.str.contains(pat, case=False, na=False) on one label
Contains(label, pat) ==
    LET u == UpperSeq(label)
        p == UpperSeq(pat)
    IN  \E i \in 1..(Len(u) - Len(p) + 1) : SubSeq(u, i, i + Len(p) - 1) = p

\* df[df['Chi tieu'].str.contains(pat, ...)]: the matching rows, in order
RECURSIVE Matching(_, _)
Matching(df, pat) ==
    IF df = <<>> THEN <<>>
    ELSE IF Contains(Head(df).label, pat)
         THEN <<Head(df)>> \o Matching(Tail(df), pat)
         ELSE Matching(Tail(df), pat)

----------------------------------------------------------------------------
(* Numbers.                                                                *)

Abs(x) == IF x < 0 THEN -x ELSE x
Sign(x) == IF x > 0 THEN 1 ELSE IF x < 0 THEN -1 ELSE 0

RECURSIVE Gcd(_, _)
Gcd(a, b) == IF b = 0 THEN a ELSE Gcd(b, a % b)

\* the float n / d (d = 1e-9 * d when tiny), as numpy computes it
Quot(n, d, tiny) ==
    IF d = 0 THEN [n |-> Sign(n), d |-> 0, tiny |-> FALSE]
    ELSE LET g == Gcd(Abs(n), Abs(d))
             s == IF d < 0 THEN -1 ELSE 1
         IN  [n |-> (s * n) \div g, d |-> (s * d) \div g,
              tiny |-> tiny /\ n # 0]

\* pd.to_numeric(cell, errors='coerce'): a number, or NaN for a blank cell
\* and for text that is no number
to_numeric(cell) ==
    IF cell.kind = "num" THEN [nan |-> FALSE, v |-> cell.v]
    ELSE [nan |-> TRUE, v |-> 0]

fillna(x, y) == IF x.nan THEN y ELSE x.v

\* mutant: the growth base is used as it is
replace_zero_off(x) == [v |-> x, tiny |-> FALSE]

\* Series.replace(0, 1e-9) on one element
replace_zero(x) ==
    IF x = 0 THEN [v |-> 1, tiny |-> TRUE] ELSE [v |-> x, tiny |-> FALSE]

\* x if x != 0 else 1e-9
divisor(x) ==
    IF x # 0 THEN [v |-> x, tiny |-> FALSE] ELSE [v |-> 1, tiny |-> TRUE]

\* (a / den) * 100
Pct(a, den) == Quot(100 * a, den.v, den.tiny)

----------------------------------------------------------------------------
(* process_financial_data                                                  *)

\* mutant: rows with a NaN are dropped instead of filled
RECURSIVE Coerce_dropna(_)
Coerce_dropna(df) ==
    IF df = <<>> THEN <<>>
    ELSE LET p == to_numeric(Head(df).prior)
             c == to_numeric(Head(df).cur)
         IN  IF p.nan \/ c.nan THEN Coerce_dropna(Tail(df))
             ELSE <<[label |-> Head(df).label, prior |-> p.v, cur |-> c.v]>>
                      \o Coerce_dropna(Tail(df))

Coerce(df) ==
    [i \in 1..Len(df) |->
        [label |-> df[i].label,
         prior |-> fillna(to_numeric(df[i].prior), 0),
         cur |-> fillna(to_numeric(df[i].cur), 0)]]

Growth(r) == Pct(r.cur - r.prior, replace_zero(r.prior))

tong_tai_san_row(df) == Matching(df, TONG_CONG_TAI_SAN)

Weights(df, divisor_N_1, divisor_N) ==
    [i \in 1..Len(df) |->
        [label |-> df[i].label,
         prior |-> df[i].prior,
         cur |-> df[i].cur,
         growth |-> Growth(df[i]),
         w_prior |-> Pct(df[i].prior, divisor_N_1),
         w_cur |-> Pct(df[i].cur, divisor_N)]]

\* mutant: the missing total row is not detected, the total counts as 0
Derive_no_raise(df, anchor) ==
    IF anchor = <<>>
    THEN [raised |-> FALSE, df |-> Weights(df, divisor(0), divisor(0))]
    ELSE [raised |-> FALSE,
          df |-> Weights(df, divisor(anchor[1].prior), divisor(anchor[1].cur))]

\* mutant: the last matching row is the anchor (.iloc[-1])
Derive_last_anchor(df, anchor) ==
    IF anchor = <<>>
    THEN [raised |-> TRUE, df |-> <<>>]
    ELSE [raised |-> FALSE,
          df |-> Weights(df, divisor(anchor[Len(anchor)].prior),
                             divisor(anchor[Len(anchor)].cur))]

Derive(df, anchor) ==
    IF anchor = <<>>
    THEN [raised |-> TRUE, df |-> <<>>]
    ELSE [raised |-> FALSE,
          df |-> Weights(df, divisor(anchor[1].prior), divisor(anchor[1].cur))]

DeriveCoerced(df) == Derive(df, tong_tai_san_row(df))

process_financial_data(raw) == DeriveCoerced(Coerce(raw))

----------------------------------------------------------------------------
(* The report: current ratio (lines 189-220) and data_for_ai (226-239).    *)

NoQuot == [n |-> 0, d |-> 1, tiny |-> FALSE]
NA == [na |-> TRUE, q |-> NoQuot]
Value(q) == [na |-> FALSE, q |-> q]

\* a / b on two numpy scalars: no zero guard, a zero divisor gives inf or nan
TrueDiv(a, b) == Quot(a, b, FALSE)

\* mutant: the IndexError is not caught
thanh_toan_uncaught(df) ==
    LET tsnh == Matching(df, TAI_SAN_NGAN_HAN)
        no_ngan_han == Matching(df, NO_NGAN_HAN)
    IN  IF tsnh = <<>> \/ no_ngan_han = <<>>
        THEN [raised |-> TRUE, warning |-> FALSE, N_1 |-> NA, N |-> NA]
        ELSE [raised |-> FALSE, warning |-> FALSE,
              N_1 |-> Value(TrueDiv(tsnh[1].prior, no_ngan_han[1].prior)),
              N |-> Value(TrueDiv(tsnh[1].cur, no_ngan_han[1].cur))]

\* mutant: the last matching short-term-assets row is taken (.iloc[-1])
thanh_toan_last_row(df) ==
    LET tsnh == Matching(df, TAI_SAN_NGAN_HAN)
        no_ngan_han == Matching(df, NO_NGAN_HAN)
    IN  IF tsnh = <<>> \/ no_ngan_han = <<>>
        THEN [raised |-> FALSE, warning |-> TRUE, N_1 |-> NA, N |-> NA]
        ELSE [raised |-> FALSE, warning |-> FALSE,
              N_1 |-> Value(TrueDiv(tsnh[Len(tsnh)].prior, no_ngan_han[1].prior)),
              N |-> Value(TrueDiv(tsnh[Len(tsnh)].cur, no_ngan_han[1].cur))]

\* the try block of lines 189-220; .iloc[0] on no row raises IndexError,
\* which line 217 catches; raised: an exception leaves the block
thanh_toan_hien_hanh(df) ==
    LET tsnh == Matching(df, TAI_SAN_NGAN_HAN)
        no_ngan_han == Matching(df, NO_NGAN_HAN)
    IN  IF tsnh = <<>> \/ no_ngan_han = <<>>
        THEN [raised |-> FALSE, warning |-> TRUE, N_1 |-> NA, N |-> NA]
        ELSE [raised |-> FALSE, warning |-> FALSE,
              N_1 |-> Value(TrueDiv(tsnh[1].prior, no_ngan_han[1].prior)),
              N |-> Value(TrueDiv(tsnh[1].cur, no_ngan_han[1].cur))]

\* DataFrame.to_markdown(index=False): one tuple of cells per row
to_markdown(df) ==
    [i \in 1..Len(df) |->
        <<df[i].label, df[i].prior, df[i].cur,
          df[i].growth, df[i].w_prior, df[i].w_cur>>]

\* 'TAI SAN NGAN HAN' in df['Chi tieu'].str.upper().str.strip().tolist()
InLabelList(df) ==
    \E i \in 1..Len(df) : Strip(UpperSeq(df[i].label)) = TAI_SAN_NGAN_HAN

\* the second entry of 'Gia tri' (line 235)
tsnh_growth(df) ==
    IF InLabelList(df)
    THEN Value(Matching(df, TAI_SAN_NGAN_HAN)[1].growth)
    ELSE NA

make_data_for_ai(df, tt) ==
    [table |-> to_markdown(df),
     tsnh_growth |-> tsnh_growth(df),
     N_1 |-> tt.N_1,
     N |-> tt.N]

NoData == [table |-> <<>>, tsnh_growth |-> NA, N_1 |-> NA, N |-> NA]
NoThanhToan == [raised |-> FALSE, warning |-> FALSE, N_1 |-> NA, N |-> NA]

----------------------------------------------------------------------------
(* The two LLM calls.  llm is what the call does: "ok", "APIError" (bad    *)
(* key, quota) or "Exception" (anything else).                             *)

Outcomes == {"ok", "APIError", "Exception"}

Plain(s) == [sys |-> FALSE, ctx |-> <<>>, body |-> s]

\* system_instruction + the financial data + the question (lines 120-124)
FullPrompt(df, prompt) == [sys |-> TRUE, ctx |-> to_markdown(df), body |-> prompt]

ReturnedText(llm) ==
    CASE llm = "ok" -> "response.text"
      [] llm = "APIError" -> "Loi goi Gemini API"
      [] OTHER -> "Da xay ra loi khong xac dinh"

\* get_ai_analysis: every exception is turned into the returned text
get_ai_analysis(llm) == [raised |-> FALSE, text |-> ReturnedText(llm)]

\* the list comprehension of lines 127-134 over st.session_state.messages
messages_history(msgs, full_prompt) ==
    [i \in 1..Len(msgs) |->
        IF msgs[i].role = "user" /\ i = 1
        THEN [role |-> "user", text |-> full_prompt]
        ELSE IF msgs[i].role = "user"
             THEN [role |-> "user", text |-> msgs[i].content]
             ELSE [role |-> "model", text |-> msgs[i].content]]

\* lines 137-140: what generate_content is given
chat_contents(msgs, df, prompt) ==
    IF msgs = <<>>
    THEN <<[role |-> "user", text |-> FullPrompt(df, prompt)]>>
    ELSE Append(messages_history(msgs, FullPrompt(df, prompt)),
                [role |-> "user", text |-> Plain(prompt)])

\* mutant: only APIError is caught, any other exception leaves the function
get_chat_response_uncaught(prompt, msgs, df, llm) ==
    [raised |-> llm = "Exception",
     text |-> ReturnedText(llm),
     contents |-> chat_contents(msgs, df, prompt)]

\* get_chat_response: msgs is st.session_state.messages at the call
get_chat_response(prompt, msgs, df, llm) ==
    [raised |-> FALSE,
     text |-> ReturnedText(llm),
     contents |-> chat_contents(msgs, df, prompt)]

Msg(role, s) == [role |-> role, content |-> Plain(s)]

----------------------------------------------------------------------------
(* Inputs.                                                                 *)

MaxRows == 3
MaxValueRows == 2
MaxTurns == 2

Num(n) == [kind |-> "num", v |-> n]
Text == [kind |-> "text", v |-> 0]
Blank == [kind |-> "blank", v |-> 0]

\* labels of the rows a statement is made of
RowLabels ==
    { <<"tong", "cong", "tai", "san">>,
      <<"TONG", "CONG", "TAI", "SAN", "NGAN", "HAN">>,
      <<"A.", "TAI", "SAN", "NGAN", "HAN">>,
      <<"Tai", "san", "ngan", "han", " ">>,
      <<"NO", "NGAN", "HAN">> }

\* statements that vary the labels: numeric cells only
LabelRows == [label : RowLabels, prior : {Num(0), Num(2)}, cur : {Num(0), Num(3)}]

\* statements that vary the cells: numbers and text that is no number
Cells == {Num(-3), Num(0), Num(2), Text, Blank}
ValueRows ==
    [label : {<<"tong", "cong", "tai", "san">>, <<"NO", "NGAN", "HAN">>},
     prior : Cells, cur : Cells]

Row(label, prior, cur) == [label |-> label, prior |-> prior, cur |-> cur]

SessionFiles ==
    { <<Row(<<"tong", "cong", "tai", "san">>, Num(2), Num(3)),
        Row(<<"A.", "TAI", "SAN", "NGAN", "HAN">>, Num(2), Num(3)),
        Row(<<"NO", "NGAN", "HAN">>, Num(2), Num(0))>>,
      <<Row(<<"TONG", "CONG", "TAI", "SAN">>, Num(0), Text)>>,
      <<Row(<<"NO", "NGAN", "HAN">>, Num(2), Num(3))>> }

Prompts == {"q1", "q2"}

NoFile == [present |-> FALSE, rows |-> <<>>]
File(rows) == [present |-> TRUE, rows |-> rows]
NoDf == [set |-> FALSE, rows |-> <<>>]
NoRequest == [fn |-> "none", contents |-> <<>>]
NoResult == [shown |-> "none", text |-> ""]

----------------------------------------------------------------------------
(* One run of the script.  clicked: the run was triggered by the button of *)
(* line 241; prompt: the text entered in st.chat_input ("" when none);     *)
(* api_key: whether st.secrets holds GEMINI_API_KEY; llm: what the LLM     *)
(* call of this run does, if one is made.                                  *)

\* lines 307-308
RunNoFile ==
    /\ view' = "info"
    /\ table' = <<>>
    /\ thanh_toan' = NoThanhToan
    /\ data_for_ai' = NoData
    /\ ai_result' = NoResult
    /\ request' = NoRequest
    /\ outcome' = "none"
    /\ UNCHANGED <<messages, df_processed_for_chat>>

\* lines 302-303: process_financial_data raised ValueError
RunValueError ==
    /\ view' = "value_error"
    /\ table' = <<>>
    /\ thanh_toan' = NoThanhToan
    /\ data_for_ai' = NoData
    /\ ai_result' = NoResult
    /\ request' = NoRequest
    /\ outcome' = "none"
    /\ UNCHANGED <<messages, df_processed_for_chat>>

\* lines 304-305: an exception reached the outer handler after the table
\* was rendered
RunError ==
    /\ view' = "error"
    /\ data_for_ai' = NoData
    /\ ai_result' = NoResult
    /\ request' = NoRequest
    /\ outcome' = "none"
    /\ UNCHANGED messages

\* lines 241-250
RunAnalysis(api_key, llm) ==
    IF api_key
    THEN LET r == get_ai_analysis(llm)
         IN  /\ request' = [fn |-> "analysis", contents |-> <<>>]
             /\ outcome' = llm
             /\ IF r.raised
                THEN view' = "error" /\ ai_result' = NoResult
                ELSE /\ view' = "report"
                     /\ ai_result' = [shown |-> "result", text |-> r.text]
    ELSE /\ request' = NoRequest
         /\ outcome' = "none"
         /\ view' = "report"
         /\ ai_result' = [shown |-> "no_key", text |-> ""]

\* mutant: without a key only the question is stored
RunChat_no_reply(prompt, api_key, llm) ==
    /\ ai_result' = NoResult
    /\ IF ~api_key
       THEN /\ messages' = Append(messages, Msg("user", prompt))
            /\ request' = NoRequest
            /\ outcome' = "none"
            /\ view' = "report"
       ELSE LET appended == Append(messages, Msg("user", prompt))
                r == get_chat_response(prompt, appended,
                                       df_processed_for_chat'.rows, llm)
            IN  /\ request' = [fn |-> "chat", contents |-> r.contents]
                /\ outcome' = llm
                /\ view' = "report"
                /\ messages' = Append(appended, Msg("assistant", r.text))

\* lines 265-298
RunChat(prompt, api_key, llm) ==
    /\ ai_result' = NoResult
    /\ IF ~api_key
       THEN \* lines 269-279; the return of line 279 ends the run
            /\ messages' = messages \o <<Msg("user", prompt),
                                        Msg("assistant", "Loi API Key")>>
            /\ request' = NoRequest
            /\ outcome' = "none"
            /\ view' = "report"
       ELSE LET appended == Append(messages, Msg("user", prompt))
                r == get_chat_response(prompt, appended,
                                       df_processed_for_chat'.rows, llm)
            IN  /\ request' = [fn |-> "chat", contents |-> r.contents]
                /\ outcome' = llm
                /\ IF r.raised
                   THEN /\ view' = "error"
                        /\ messages' = appended
                   ELSE /\ view' = "report"
                        /\ messages' = Append(appended, Msg("assistant", r.text))

\* lines 161-305
Run(file, clicked, prompt, api_key, llm) ==
    /\ uploaded_file' = file
    /\ IF ~file.present THEN RunNoFile
       ELSE \E r \in {process_financial_data(file.rows)} :
                IF r.raised THEN RunValueError
                ELSE /\ df_processed_for_chat' = [set |-> TRUE, rows |-> r.df]
                     /\ table' = r.df
                     /\ thanh_toan' = thanh_toan_hien_hanh(r.df)
                     /\ IF thanh_toan'.raised THEN RunError
                        ELSE /\ data_for_ai' = make_data_for_ai(r.df, thanh_toan')
                             /\ IF clicked
                                THEN /\ RunAnalysis(api_key, llm)
                                     /\ UNCHANGED messages
                                ELSE IF prompt # ""
                                     THEN RunChat(prompt, api_key, llm)
                                     ELSE /\ view' = "report"
                                          /\ ai_result' = NoResult
                                          /\ request' = NoRequest
                                          /\ outcome' = "none"
                                          /\ UNCHANGED messages

----------------------------------------------------------------------------
(* Actions: what the user does; each triggers one run.                     *)

\* no button is clicked and no question entered in the run an upload, a
\* removal or a plain rerun triggers: api_key and llm are not read
Upload ==
    /\ \E s \in SessionFiles : Run(File(s), FALSE, "", FALSE, "ok")

RemoveFile ==
    /\ uploaded_file.present
    /\ Run(NoFile, FALSE, "", FALSE, "ok")

Rerun ==
    /\ Run(uploaded_file, FALSE, "", FALSE, "ok")

ClickAnalyze ==
    /\ view = "report"
    /\ \E api_key \in BOOLEAN, llm \in Outcomes :
          Run(uploaded_file, TRUE, "", api_key, llm)

ChatInput ==
    /\ view = "report"
    /\ Len(messages) < 2 * MaxTurns
    /\ \E prompt \in Prompts, api_key \in BOOLEAN, llm \in Outcomes :
          Run(uploaded_file, FALSE, prompt, api_key, llm)

\* st.session_state as lines 88-93 initialise it, and an empty page
Fresh ==
    /\ messages = <<>>
    /\ df_processed_for_chat = NoDf
    /\ view = "info"
    /\ table = <<>>
    /\ thanh_toan = NoThanhToan
    /\ data_for_ai = NoData
    /\ ai_result = NoResult
    /\ request = NoRequest
    /\ outcome = "none"

\* the session: a fresh session_state, the first run has shown the uploader
Init == uploaded_file = NoFile /\ Fresh

Next == Upload \/ RemoveFile \/ Rerun \/ ClickAnalyze \/ ChatInput

Spec == Init /\ [][Next]_vars

\* the report alone: a statement is in the uploader of a fresh session, and
\* the run it triggers derives and renders the report
InitReport ==
    /\ \E n \in 0..MaxRows : \E s \in [1..n -> LabelRows] : uploaded_file = File(s)
    /\ Fresh

InitDerive ==
    /\ \E n \in 0..MaxValueRows : \E s \in [1..n -> ValueRows] : uploaded_file = File(s)
    /\ Fresh

NextDerive == Rerun

SpecReport == InitReport /\ [][NextDerive]_vars

SpecDerive == InitDerive /\ [][NextDerive]_vars

----------------------------------------------------------------------------
(* Properties of the derived report (SpecDerive, SpecReport).              *)

Raw == uploaded_file.rows
Ran == view # "info"

HasLabel(pat) == \E i \in 1..Len(Raw) : Contains(Raw[i].label, pat)

\* the index of the first row, in statement order, whose label contains pat
First(pat) ==
    CHOOSE i \in 1..Len(Raw) :
        /\ Contains(Raw[i].label, pat)
        /\ \A j \in 1..(i - 1) : ~Contains(Raw[j].label, pat)

Finite(q) == q.d > 0

\* q is a / denom(b) * 100, where denom(b) = b if b # 0 else 1e-9
IsGuardedPct(q, a, b) ==
    IF b # 0
    THEN Finite(q) /\ ~q.tiny /\ q.n * b = 100 * a * q.d
    ELSE Finite(q) /\ q.tiny = (a # 0) /\ q.n = 100 * a * q.d

\* q is the float a / b: inf, -inf or nan when b = 0
IsQuotient(q, a, b) ==
    IF b # 0
    THEN Finite(q) /\ ~q.tiny /\ q.n * b = a * q.d
    ELSE q.d = 0 /\ q.n = Sign(a)

\* the value pandas computes with for a cell
CellValue(cell) == IF cell.kind = "num" THEN cell.v ELSE 0

\* the statement with every cell that is no number set to 0
Zeroed(rows) ==
    [i \in 1..Len(rows) |->
        [label |-> rows[i].label,
         prior |-> Num(CellValue(rows[i].prior)),
         cur |-> Num(CellValue(rows[i].cur))]]

\* C1: a statement none of whose labels contains the total-assets pattern
\* fails with the ValueError of line 35: the run shows that error, renders
\* no table and no excerpt, and stores nothing in the session.
C1_MissingAnchorFails ==
    (Ran /\ ~HasLabel(TONG_CONG_TAI_SAN)) =>
        /\ view = "value_error"
        /\ table = <<>>
        /\ data_for_ai = NoData
        /\ df_processed_for_chat = NoDf

C1_Witness ==
    /\ view = "value_error"
    /\ Len(Raw) = 3
    /\ HasLabel(TAI_SAN_NGAN_HAN)
    /\ HasLabel(NO_NGAN_HAN)

\* C2: with an anchor row the derivation does not raise, and every row's
\* growth is (cur - prior) / denom(prior) * 100; a row with prior = 0 has
\* a finite growth with the sign of cur.
C2_Growth ==
    (Ran /\ HasLabel(TONG_CONG_TAI_SAN)) =>
        /\ view = "report"
        /\ Len(table) = Len(Raw)
        /\ \A i \in 1..Len(table) :
              /\ IsGuardedPct(table[i].growth,
                              table[i].cur - table[i].prior, table[i].prior)
              /\ table[i].prior = 0 =>
                    /\ Finite(table[i].growth)
                    /\ Sign(table[i].growth.n) = Sign(table[i].cur)

C2_Witness ==
    /\ view = "report"
    /\ \E i \in 1..Len(table) : table[i].prior = 0 /\ table[i].cur < 0
    /\ \E i \in 1..Len(table) : table[i].prior = 2 /\ table[i].cur = -3

\* C3: the anchor is the first row whose label contains the total-assets
\* pattern; every row's weights are prior / denom(anchor prior) * 100 and
\* cur / denom(anchor cur) * 100, each period guarded on its own.
C3_Weights ==
    (Ran /\ HasLabel(TONG_CONG_TAI_SAN)) =>
        /\ view = "report"
        /\ Len(table) = Len(Raw)
        /\ LET a == First(TONG_CONG_TAI_SAN)
           IN  \A i \in 1..Len(table) :
                  /\ IsGuardedPct(table[i].w_prior, table[i].prior, table[a].prior)
                  /\ IsGuardedPct(table[i].w_cur, table[i].cur, table[a].cur)

C3_Witness ==
    /\ view = "report"
    /\ Len(table) = 2
    /\ Contains(table[1].label, TONG_CONG_TAI_SAN)
    /\ Contains(table[2].label, TONG_CONG_TAI_SAN)
    /\ table[1].prior = 0
    /\ table[1].cur = 2
    /\ table[2].prior = 2
    /\ table[2].cur = -3

\* C4: a cell that is no number counts as 0 and never makes the derivation
\* fail: the table is the one derived from the statement with those cells
\* set to 0, also when they are in the anchor row.
C4_Coercion ==
    (Ran /\ HasLabel(TONG_CONG_TAI_SAN)) =>
        /\ view = "report"
        /\ Len(table) = Len(Raw)
        /\ \A i \in 1..Len(table) :
              /\ table[i].prior = CellValue(Raw[i].prior)
              /\ table[i].cur = CellValue(Raw[i].cur)
        /\ table = process_financial_data(Zeroed(Raw)).df

C4_Witness ==
    /\ view = "report"
    /\ Len(Raw) = 2
    /\ Contains(Raw[1].label, TONG_CONG_TAI_SAN)
    /\ Raw[1].prior = Text
    /\ Raw[1].cur = Num(2)
    /\ Raw[2].prior = Num(-3)
    /\ Raw[2].cur = Blank

\* C5: when the short-term-assets row or the short-term-liabilities row is
\* missing, the current ratio is N/A for both periods, on the page and in
\* the excerpt, the report is rendered, and the table is the derived one.
C5_MissingLiquidityRows ==
    (Ran /\ HasLabel(TONG_CONG_TAI_SAN)
         /\ (~HasLabel(TAI_SAN_NGAN_HAN) \/ ~HasLabel(NO_NGAN_HAN))) =>
        /\ view = "report"
        /\ thanh_toan.N_1 = NA
        /\ thanh_toan.N = NA
        /\ data_for_ai.N_1 = NA
        /\ data_for_ai.N = NA
        /\ table = process_financial_data(Raw).df
        /\ data_for_ai.table = to_markdown(table)

C5_Witness ==
    /\ view = "report"
    /\ Len(Raw) = 3
    /\ HasLabel(TAI_SAN_NGAN_HAN)
    /\ ~HasLabel(NO_NGAN_HAN)
    /\ thanh_toan.N = NA

\* C6: when both rows are present, each period's current ratio is the
\* value of the first short-term-assets row over the value of the first
\* short-term-liabilities row, also when the latter is 0; the report is
\* rendered and the table is the derived one.
C6_CurrentRatio ==
    (Ran /\ HasLabel(TONG_CONG_TAI_SAN)
         /\ HasLabel(TAI_SAN_NGAN_HAN) /\ HasLabel(NO_NGAN_HAN)) =>
        /\ view = "report"
        /\ table = process_financial_data(Raw).df
        /\ LET a == First(TAI_SAN_NGAN_HAN)
               l == First(NO_NGAN_HAN)
           IN  /\ ~thanh_toan.N_1.na
               /\ ~thanh_toan.N.na
               /\ IsQuotient(thanh_toan.N_1.q, table[a].prior, table[l].prior)
               /\ IsQuotient(thanh_toan.N.q, table[a].cur, table[l].cur)

C6_Witness ==
    /\ view = "report"
    /\ Len(Raw) = 3
    /\ Contains(Raw[1].label, TAI_SAN_NGAN_HAN)
    /\ Contains(Raw[2].label, TAI_SAN_NGAN_HAN)
    /\ Raw[1].cur = Num(3)
    /\ Raw[2].cur = Num(0)
    /\ Raw[1].prior = Num(2)
    /\ Raw[2].prior = Num(0)
    /\ thanh_toan.N_1.q.d = 0
    /\ thanh_toan.N.q = [n |-> 1, d |-> 1, tiny |-> FALSE]

\* C7: the excerpt reports the growth of the first short-term-assets row
\* whenever some label contains the short-term-assets pattern, and N/A
\* only when none does; a numeric current ratio never comes with N/A growth.
C7_ExcerptGrowth ==
    view = "report" =>
        /\ data_for_ai.tsnh_growth.na = ~HasLabel(TAI_SAN_NGAN_HAN)
        /\ HasLabel(TAI_SAN_NGAN_HAN) =>
              data_for_ai.tsnh_growth.q = table[First(TAI_SAN_NGAN_HAN)].growth
        /\ ~data_for_ai.N.na => ~data_for_ai.tsnh_growth.na

----------------------------------------------------------------------------
(* Properties of the session (Spec).                                       *)

ApiRole(role) == IF role = "assistant" THEN "model" ELSE role

\* C8: the contents of every chat request hold the formatted financial
\* data, then every earlier turn in order with its role and its own text,
\* and end with the current question.
C8_HistoryResent ==
    (request.fn = "chat" /\ view = "report") =>
        LET c == request.contents
            n == Len(messages) - 2
        IN  /\ \E k \in 1..Len(c) :
                  /\ c[k].text.sys
                  /\ c[k].text.ctx = to_markdown(df_processed_for_chat.rows)
            /\ Len(c) > n
            /\ \A i \in 1..n :
                  /\ c[i].role = ApiRole(messages[i].role)
                  /\ c[i].text.body = messages[i].content.body
            /\ c[Len(c)].role = "user"
            /\ c[Len(c)].text.body = messages[n + 1].content.body

\* C9: a run whose LLM call fails still renders the report, returns the
\* failure as the text shown (the assistant entry of the chat, the result
\* of the analysis), and leaves the derived statement as it was.
C9_FailureIsLocal ==
    [][ (request'.fn # "none" /\ outcome' \in {"APIError", "Exception"}) =>
           /\ view' = "report"
           /\ df_processed_for_chat' = df_processed_for_chat
           /\ table' = table
           /\ request'.fn = "chat" =>
                 \E p \in Prompts :
                     messages' = messages \o
                         <<Msg("user", p), Msg("assistant", ReturnedText(outcome'))>>
           /\ request'.fn = "analysis" =>
                 /\ messages' = messages
                 /\ ai_result' = [shown |-> "result", text |-> ReturnedText(outcome')]
      ]_vars

C9_Witness ==
    /\ view = "report"
    /\ request.fn = "chat"
    /\ outcome = "Exception"
    /\ Len(messages) = 4
    /\ messages[2].content.body = "Loi goi Gemini API"
    /\ messages[4].content.body = "Da xay ra loi khong xac dinh"

Alternating ==
    /\ Len(messages) % 2 = 0
    /\ \A i \in 1..Len(messages) :
          messages[i].role = IF i % 2 = 1 THEN "user" ELSE "assistant"

====
